---- MODULE Spec2Model ----
(***************************************************************************)
(* A model of the protective core of security.py: the sliding-window       *)
(* RateLimiter kept in the session dictionary, the bounded, de-duplicated  *)
(* e-mail store kept in collected_emails.json, the cell sanitizer, the CSV *)
(* guard and the e-mail validator.                                         *)
(*                                                                         *)
(* The module holds several specifications over one set of variables.      *)
(*   SpecRL      one session using the rate limiter, one call at a time    *)
(*   SpecRLRace  two threads of one session running check-then-record      *)
(*   SpecES      save_email calls on the store, one call at a time         *)
(*   SpecESRace  two save_email calls interleaved on the shared file       *)
(*   SpecSan     one call of sanitize_string                               *)
(*   SpecVE      one call of validate_email, the lookup ending in any way  *)
(*   SpecCSV     one call of validate_csv_security on an uploaded table    *)
(*   SpecForm    one press of Subscribe on the application's e-mail form   *)
(*   SpecSeason  one upload handed to process_csv under a chosen season    *)
(* Each specification moves its own variables and leaves the others at     *)
(* their initial values.                                                   *)
(***************************************************************************)
EXTENDS Integers, Sequences, FiniteSets, TLC

VARIABLES
    now,            \* datetime.now(), in whole ticks
    limits,         \* RATE_LIMITS as the caller passes them: action -> limit
    window,         \* window_seconds, in ticks
    session_state,  \* the session dictionary: key -> list of timestamps
    checks,         \* history: action -> summary of the checks made so far
    rpc,            \* SpecRLRace: thread -> position in check-then-record
    rlocal,         \* SpecRLRace: thread -> locals of check_rate_limit
    admitted,       \* SpecRLRace: number of requests that recorded their action
    file,           \* collected_emails.json
    lastCall,       \* the last save_email call: its inputs, the file before it, its outcome
    epc,            \* SpecESRace: process -> position in save_email
    elocal,         \* SpecESRace: process -> arguments and locals of save_email
    email_arg,      \* SpecVE: the string passed to validate_email
    email_ret,      \* SpecVE: what validate_email did with it
    value_arg,      \* SpecSan: the string passed to sanitize_string
    value_ret,      \* SpecSan: what sanitize_string returned
    csv_arg,        \* SpecCSV: the table and file size passed to validate_csv_security
    caller_df,      \* SpecCSV: the table object the caller holds
    csv_ret,        \* SpecCSV: what validate_csv_security returned
    email_form,     \* SpecForm: the email_submitted flag and the last run of the form
    season          \* SpecSeason: the season chosen and what process_csv made of the columns

rlVars   == <<now, limits, window, session_state, checks>>
raceVars == <<rpc, rlocal, admitted>>
esVars   == <<file, lastCall>>
esRaceVars == <<epc, elocal>>
veVars   == <<email_arg, email_ret>>
sanVars  == <<value_arg, value_ret>>
csvVars  == <<csv_arg, caller_df, csv_ret>>
appVars  == <<email_form, season>>
fnVars   == <<veVars, sanVars, csvVars, appVars>>
vars == <<rlVars, raceVars, esVars, esRaceVars, fnVars>>

(***************************************************************************)
(* Bounds of the model.                                                    *)
(***************************************************************************)
MaxTime   == 3      \* the clock runs over 0..MaxTime
MaxLimit  == 2      \* limits are drawn from 0..MaxLimit
MaxWindow == 2      \* windows are drawn from 1..MaxWindow
MaxChecks == 3      \* checks made in one run, over all actions

Actions == {"uploads", "pdfs"}

(***************************************************************************)
(* RateLimiter                                                             *)
(***************************************************************************)
get_session_key(action) == "rate_limit_" \o action

\* a filter that keeps every timestamp
in_window_always(ts, window_start) == TRUE

\* the comprehension's filter: a timestamp is kept when it is after window_start
in_window(ts, window_start) == ts > window_start

\* the limit test written with > : it admits one action too many
over_limit_gt(current_count, limit) == current_count > limit

\* the limit test
over_limit(current_count, limit) == current_count >= limit

NoMessage == <<>>
RateLimitMessage(limit, action) ==
    <<"Rate limit exceeded. Maximum", limit, action, "per hour. Please wait.">>

\* session_state with the key initialised when it is missing
with_key(ss, key) == IF key \in DOMAIN ss THEN ss ELSE ss @@ (key :> <<>>)

\* the list stored under key once the old entries are filtered out
pruned(ss, key, window_seconds, t) ==
    SelectSeq(with_key(ss, key)[key], LAMBDA ts : in_window(ts, t - window_seconds))

\* check_rate_limit at clock t: the new dictionary and the returned triple
check_rate_limit(ss, action, limit, window_seconds, t) ==
    LET key == get_session_key(action)
        ss2 == [with_key(ss, key) EXCEPT ![key] = pruned(ss, key, window_seconds, t)]
        current_count == Len(ss2[key])
        remaining == limit - current_count
    IN  IF over_limit(current_count, limit)
        THEN [state |-> ss2, allowed |-> FALSE,
              message |-> RateLimitMessage(limit, action), remaining |-> 0]
        ELSE [state |-> ss2, allowed |-> TRUE,
              message |-> NoMessage, remaining |-> remaining]

\* record_action at clock t: the new dictionary
record_action(ss, action, t) ==
    LET key == get_session_key(action)
    IN  [with_key(ss, key) EXCEPT ![key] = Append(@, t)]

\* the timestamps of an action that lie in the window ending at t (used to
\* state properties, not by the limiter)
InWindow(ss, action, window_seconds, t) ==
    LET key == get_session_key(action)
    IN  IF key \in DOMAIN ss
        THEN SelectSeq(ss[key], LAMBDA ts : ts > t - window_seconds)
        ELSE <<>>

(***************************************************************************)
(* SpecRL: one session, one call at a time.  The caller checks, and        *)
(* records only after a check that allowed (check_upload_limit then        *)
(* record_upload, check_pdf_limit then record_pdf).                        *)
(***************************************************************************)
\* history of the checks of one action: their number n, the clock t1 of the
\* first, whether the last came less than a window after the first, what the
\* last returned, whether the last was followed by record_action, whether
\* every earlier check that allowed was, and the oldest timestamp counted by
\* the first check that denied since the last record_action (-1 when none
\* denied)
NoChecks ==
    [n |-> 0, t1 |-> 0, within |-> TRUE, allowed |-> FALSE,
     recorded |-> FALSE, followed |-> TRUE, oldest |-> -1]

RECURSIVE SumChecks(_)
SumChecks(as) ==
    IF as = {} THEN 0
    ELSE LET a == CHOOSE x \in as : TRUE IN checks[a].n + SumChecks(as \ {a})

TotalChecks == SumChecks(Actions)

InitRLState ==
    /\ now = 0
    /\ session_state = << >>
    /\ checks = [a \in Actions |-> NoChecks]

InitRaceIdle ==
    /\ rpc = << >>
    /\ rlocal = << >>
    /\ admitted = 0

\* no call of validate_email, sanitize_string or validate_csv_security
NotCalled == "not called"

InitVEIdle  == email_arg = NotCalled /\ email_ret = NotCalled
InitSanIdle == value_arg = NotCalled /\ value_ret = NotCalled
InitCSVIdle == csv_arg = NotCalled /\ caller_df = NotCalled /\ csv_ret = NotCalled
InitFormIdle   == email_form = NotCalled
InitSeasonIdle == season = NotCalled
InitAppIdle == InitFormIdle /\ InitSeasonIdle
InitFnIdle  == InitVEIdle /\ InitSanIdle /\ InitCSVIdle /\ InitAppIdle

Tick ==
    /\ now < MaxTime
    /\ now' = now + 1
    /\ UNCHANGED <<limits, window, session_state, checks>>
    /\ UNCHANGED <<raceVars, esVars, esRaceVars, fnVars>>

Check(a) ==
    /\ TotalChecks < MaxChecks
    /\ LET r == check_rate_limit(session_state, a, limits[a], window, now)
       IN  /\ session_state' = r.state
           /\ checks' = [checks EXCEPT ![a] =
                           [n |-> @.n + 1,
                            t1 |-> IF @.n = 0 THEN now ELSE @.t1,
                            within |-> (@.n = 0) \/ (now - @.t1 < window),
                            allowed |-> r.allowed,
                            recorded |-> FALSE,
                            followed |-> @.followed /\ (@.allowed => @.recorded),
                            oldest |-> IF @.oldest = -1 /\ ~r.allowed
                                          /\ r.state[get_session_key(a)] # << >>
                                       THEN r.state[get_session_key(a)][1]
                                       ELSE @.oldest]]
    /\ UNCHANGED <<now, limits, window>>
    /\ UNCHANGED <<raceVars, esVars, esRaceVars, fnVars>>

Record(a) ==
    /\ checks[a].allowed /\ ~checks[a].recorded
    /\ session_state' = record_action(session_state, a, now)
    /\ checks' = [checks EXCEPT ![a].recorded = TRUE, ![a].oldest = -1]
    /\ UNCHANGED <<now, limits, window>>
    /\ UNCHANGED <<raceVars, esVars, esRaceVars, fnVars>>

(***************************************************************************)
(* Text.  A Python str is the sequence of its characters, each a           *)
(* one-character string; NUL stands for the character '\x00'.              *)
(***************************************************************************)
LowerLetters == <<"a", "b", "c", "d", "e", "f", "g", "h", "i", "j", "k", "l", "m",
                  "n", "o", "p", "q", "r", "s", "t", "u", "v", "w", "x", "y", "z">>
UpperLetters == <<"A", "B", "C", "D", "E", "F", "G", "H", "I", "J", "K", "L", "M",
                  "N", "O", "P", "Q", "R", "S", "T", "U", "V", "W", "X", "Y", "Z">>
LowerSet == {LowerLetters[i] : i \in DOMAIN LowerLetters}
UpperSet == {UpperLetters[i] : i \in DOMAIN UpperLetters}
Letters  == LowerSet \cup UpperSet
Digits   == {"0", "1", "2", "3", "4", "5", "6", "7", "8", "9"}
NUL      == "NUL"

\* the characters str.strip() removes (those the inputs use)
Whitespace == {" ", "\t", "\n", "\r"}

\* the regular expression classes \d and \w
IsDigit(c)    == c \in Digits
IsWordChar(c) == c \in Letters \cup Digits \cup {"_"}

\* the string of n characters c
Repeat(c, n) == [i \in 1..n |-> c]

(***************************************************************************)
(* E-mail store: the file collected_emails.json                            *)
(***************************************************************************)
\* Scaled caps.  The code's MAX_EMAILS_STORED is 10000 and its size cap is
\* EMAILS_FILE_MAX_MB = 2, that is 2 * 1024 * 1024 bytes; the model keeps the
\* code's comparisons and byte arithmetic and shrinks the two numbers.
MaxStored    == 2
MaxFileBytes == 270
MaxEmailLen  == 138     \* the longest address submitted

MAX_EMAILS_STORED     == MaxStored
EMAILS_FILE_MAX_BYTES == MaxFileBytes

Sessions == {"s1", "s2"}

\* An address is its first characters followed by pad letters "x": the
\* string head \o "x...x".  Short addresses, two of them equal up to case, and
\* two long ones.
Address(head, n) == [head |-> head, pad |-> n - Len(head)]

ShortEmails == {Address(<<"a">>, 1), Address(<<"A">>, 1), Address(<<"b">>, 1),
                Address(<<"c">>, 1)}
LongEmails  == {Address(<<"y">>, MaxEmailLen - 1), Address(<<"Z">>, MaxEmailLen)}
Emails      == ShortEmails \cup LongEmails

\* len(email)
EmailLen(email) == Len(email.head) + email.pad

LowerChar(c) ==
    IF c \in UpperSet
    THEN LowerLetters[CHOOSE i \in DOMAIN UpperLetters : UpperLetters[i] = c]
    ELSE c

\* str.lower()
lower(email) == [email EXCEPT !.head = [i \in DOMAIN @ |-> LowerChar(@[i])]]

\* bytes json.dump(..., indent=2) writes for one entry beyond the address
\* itself, its separator included, with the 16-character session_id and the
\* 26-character isoformat timestamp: a one-entry file with a one-character
\* address has 134 bytes, "[]" has 2
RecordBytes == 131

RECURSIVE json_size(_)
\* length of json.dump(emails_data, f, indent=2)
json_size(data) ==
    IF data = << >> THEN 2
    ELSE RecordBytes + EmailLen(data[Len(data)].email)
         + json_size(SubSeq(data, 1, Len(data) - 1))

\* the file: absent, a JSON list written by json.dump, or what a failed
\* write left behind
NoFile         == [kind |-> "absent",  data |-> << >>, bytes |-> 0]
JsonFile(data) == [kind |-> "json",    data |-> data,  bytes |-> json_size(data)]
PartialFile(n) == [kind |-> "partial", data |-> << >>, bytes |-> n]

\* EMAILS_FILE.exists()
file_exists(f) == f.kind # "absent"

\* file_size_mb > EMAILS_FILE_MAX_MB, on bytes
size_over_cap(st_size) == st_size > EMAILS_FILE_MAX_BYTES

\* the count test written with > : it stores one record too many
count_reached_gt(emails_data) == Len(emails_data) > MAX_EMAILS_STORED

\* len(emails_data) >= MAX_EMAILS_STORED
count_reached(emails_data) == Len(emails_data) >= MAX_EMAILS_STORED

\* existing_emails
existing_emails(emails_data) == {lower(emails_data[i].email) : i \in DOMAIN emails_data}

\* the duplicate test without lower(): it tells apart the cases of an address
is_duplicate_exact(email, emails_data) ==
    email \in {emails_data[i].email : i \in DOMAIN emails_data}

\* email.lower() in existing_emails
is_duplicate(email, emails_data) == lower(email) \in existing_emails(emails_data)

\* email_entry
email_entry(email, sid, t, consent_given) ==
    [email |-> email, session_id |-> sid, timestamp |-> t, consent |-> consent_given]

\* the environment's faults: where an operation of the call fails, if it is reached
Faults == {"none", "stat", "read", "open_w", "dump_empty", "dump_prefix"}

\* an outcome of save_email: the file after the call, the value returned, the
\* operation that raised ("none" when none did), the number of times the
\* file was read and opened for writing, and the log lines emitted
Outcome(f, ret, failed, reads, writes, logged) ==
    [file |-> f, ret |-> ret, failed |-> failed,
     reads |-> reads, writes |-> writes, logged |-> logged]

\* an except branch that reports success
on_exception_true(f, failed, reads, writes) ==
    Outcome(f, TRUE, failed, reads, writes, <<"error: Failed to save email">>)

\* except Exception: log the error and return False
on_exception(f, failed, reads, writes) ==
    Outcome(f, FALSE, failed, reads, writes, <<"error: Failed to save email">>)

\* the write: open(EMAILS_FILE, 'w') truncates, json.dump fills the file
save_write(f, emails_data, fault) ==
    CASE fault = "open_w"      -> on_exception(f, "open_w", IF file_exists(f) THEN 1 ELSE 0, 1)
      [] fault = "dump_empty"  -> on_exception(PartialFile(0), "dump",
                                               IF file_exists(f) THEN 1 ELSE 0, 1)
      [] fault = "dump_prefix" -> on_exception(PartialFile(json_size(emails_data) - 1), "dump",
                                               IF file_exists(f) THEN 1 ELSE 0, 1)
      [] OTHER -> Outcome(JsonFile(emails_data), TRUE, "none",
                          IF file_exists(f) THEN 1 ELSE 0, 1, <<"info: email_submitted">>)

\* the body of the try block, from the loaded list on
save_checks(f, emails_data, email, sid, consent_given, fault, t) ==
    LET reads == IF file_exists(f) THEN 1 ELSE 0
    IN  IF count_reached(emails_data)
        THEN Outcome(f, TRUE, "none", reads, 0, <<"warning: Email count limit reached">>)
        ELSE IF is_duplicate(email, emails_data)
        THEN Outcome(f, TRUE, "none", reads, 0, << >>)
        ELSE save_write(f, Append(emails_data, email_entry(email, sid, t, consent_given)), fault)

\* the try block
save_try(f, email, sid, consent_given, fault, t) ==
    IF file_exists(f) /\ fault = "stat"
    THEN on_exception(f, "stat", 0, 0)
    ELSE IF file_exists(f) /\ size_over_cap(f.bytes)
    THEN Outcome(f, TRUE, "none", 0, 0, <<"warning: Email file size limit reached">>)
    ELSE IF file_exists(f) /\ fault = "read"
    THEN on_exception(f, "read", 1, 0)
    ELSE IF f.kind = "partial"
    THEN on_exception(f, "parse", 1, 0)
    ELSE save_checks(f, f.data, email, sid, consent_given, fault, t)

\* save_email without its first statement
save_email_without_consent_test(f, email, sid, consent_given, fault, t) ==
    save_try(f, email, sid, consent_given, fault, t)

\* save_email(email, session_state, consent_given) on file f at clock t
save_email(f, email, sid, consent_given, fault, t) ==
    IF ~consent_given
    THEN Outcome(f, FALSE, "none", 0, 0, << >>)
    ELSE save_try(f, email, sid, consent_given, fault, t)

\* get_email_count()
get_email_count(f) == IF f.kind = "json" THEN Len(f.data) ELSE 0

(***************************************************************************)
(* SpecES: save_email calls, one at a time, starting without a file.       *)
(***************************************************************************)
NoCall ==
    [called |-> FALSE, email |-> Address(<< >>, 0), sid |-> "s1", consent |-> FALSE, fault |-> "none",
     before |-> NoFile, ret |-> FALSE, failed |-> "none", reads |-> 0, writes |-> 0,
     logged |-> << >>]

InitESState ==
    /\ file = NoFile
    /\ lastCall = NoCall

InitESRaceIdle ==
    /\ epc = << >>
    /\ elocal = << >>

InitRLIdle ==
    /\ InitRLState
    /\ limits = [a \in Actions |-> 0]
    /\ window = 1

SaveEmail(email, sid, consent_given, fault) ==
    /\ LET r == save_email(file, email, sid, consent_given, fault, now)
       IN  /\ file' = r.file
           /\ lastCall' = [called |-> TRUE, email |-> email, sid |-> sid,
                           consent |-> consent_given, fault |-> fault, before |-> file,
                           ret |-> r.ret, failed |-> r.failed, reads |-> r.reads,
                           writes |-> r.writes, logged |-> r.logged]
    /\ UNCHANGED <<rlVars, raceVars, esRaceVars, fnVars>>

InitES == InitRLIdle /\ InitRaceIdle /\ InitESState /\ InitESRaceIdle /\ InitFnIdle

NextES ==
    \E email \in Emails, sid \in Sessions, consent_given \in BOOLEAN :
        \E fault \in (IF consent_given THEN Faults ELSE {"none"}) :
            SaveEmail(email, sid, consent_given, fault)

SpecES == InitES /\ [][NextES]_vars

(***************************************************************************)
(* SpecRL                                                                  *)
(***************************************************************************)
InitRL ==
    /\ InitRLState
    /\ limits \in [Actions -> 0..MaxLimit]
    /\ window \in 1..MaxWindow
    /\ InitRaceIdle /\ InitESState /\ InitESRaceIdle /\ InitFnIdle

NextRL ==
    \/ Tick
    \/ \E a \in Actions : Check(a)
    \/ \E a \in Actions : Record(a)

SpecRL == InitRL /\ [][NextRL]_vars

\* C1: from a fresh session, when check_rate_limit is called limit + 1 times
\* for an action within one window and record_action follows each check that
\* allowed, the first limit checks allow and check number limit + 1 denies.
\* Stated on the latest check of every action, in every reachable state.
C1_LimitPlusOne ==
    \A a \in Actions :
        LET c == checks[a]
        IN  (c.n >= 1 /\ c.n <= limits[a] + 1 /\ c.within /\ c.followed)
                => (c.allowed <=> (c.n <= limits[a]))

\* a run of limit + 1 checks with limit >= 1, the clock having advanced since
\* the first, whose last check denies
C1_Witness ==
    \E a \in Actions :
        /\ limits[a] >= 1
        /\ checks[a].n = limits[a] + 1
        /\ checks[a].within /\ checks[a].followed
        /\ ~checks[a].allowed
        /\ now > checks[a].t1

(***************************************************************************)
(* SpecRLRace: two threads of one session run check-then-record for the    *)
(* same action.  check_rate_limit takes no lock: between its statements,   *)
(* and between the check and record_action, the other thread may run.      *)
(***************************************************************************)
Threads    == {1, 2}
RaceAction == "pdfs"
RaceKey    == get_session_key(RaceAction)

\* the session after k earlier admissions at clock 0; a fresh one when k = 0
Admitted(k) == IF k = 0 THEN << >> ELSE (RaceKey :> [i \in 1..k |-> 0])

InitRLRace ==
    /\ now = 0
    /\ limits \in [Actions -> 0..MaxLimit]
    /\ limits["uploads"] = 0
    /\ window \in 1..MaxWindow
    /\ \E k \in 0..limits[RaceAction] : session_state = Admitted(k)
    /\ checks = [a \in Actions |-> NoChecks]
    /\ rpc = [p \in Threads |-> "start"]
    /\ rlocal = [p \in Threads |-> [filtered |-> << >>, allowed |-> FALSE]]
    /\ admitted = 0
    /\ InitESState /\ InitESRaceIdle /\ InitFnIdle

RaceTick ==
    /\ now < MaxTime
    /\ now' = now + 1
    /\ UNCHANGED <<limits, window, session_state, checks>>
    /\ UNCHANGED <<raceVars, esVars, esRaceVars, fnVars>>

\* the key is initialised when missing; the list comprehension reads the
\* list and filters it
RaceFilter(p) ==
    /\ rpc[p] = "start"
    /\ session_state' = with_key(session_state, RaceKey)
    /\ rlocal' = [rlocal EXCEPT ![p].filtered = pruned(session_state, RaceKey, window, now)]
    /\ rpc' = [rpc EXCEPT ![p] = "filtered"]
    /\ UNCHANGED <<now, limits, window, checks, admitted, esVars, esRaceVars, fnVars>>

\* session_state[key] = the filtered list
RaceStore(p) ==
    /\ rpc[p] = "filtered"
    /\ session_state' = [with_key(session_state, RaceKey) EXCEPT ![RaceKey] = rlocal[p].filtered]
    /\ rpc' = [rpc EXCEPT ![p] = "stored"]
    /\ UNCHANGED <<now, limits, window, checks, rlocal, admitted, esVars, esRaceVars, fnVars>>

\* current_count = len(session_state[key]) and the limit test
RaceCount(p) ==
    /\ rpc[p] = "stored"
    /\ LET current_count == Len(session_state[RaceKey])
       IN  /\ rlocal' = [rlocal EXCEPT ![p].allowed = ~over_limit(current_count, limits[RaceAction])]
           /\ rpc' = [rpc EXCEPT ![p] =
                        IF over_limit(current_count, limits[RaceAction]) THEN "denied" ELSE "allowed"]
    /\ UNCHANGED <<rlVars, admitted, esVars, esRaceVars, fnVars>>

\* the caller goes on to record_action
RaceRecord(p) ==
    /\ rpc[p] = "allowed"
    /\ session_state' = record_action(session_state, RaceAction, now)
    /\ admitted' = admitted + 1
    /\ rpc' = [rpc EXCEPT ![p] = "recorded"]
    /\ UNCHANGED <<now, limits, window, checks, rlocal, esVars, esRaceVars, fnVars>>

NextRLRace ==
    \/ RaceTick
    \/ \E p \in Threads : RaceFilter(p)
    \/ \E p \in Threads : RaceStore(p)
    \/ \E p \in Threads : RaceCount(p)
    \/ \E p \in Threads : RaceRecord(p)

SpecRLRace == InitRLRace /\ [][NextRLRace]_vars

\* C2: under every interleaving of two check-then-record sequences for one
\* session and action, the timestamps stored in the window never outnumber
\* the limit (with one slot left, at most one of the two is admitted).
C2_NoOverAdmission ==
    Len(InWindow(session_state, RaceAction, window, now)) <= limits[RaceAction]

(***************************************************************************)
(* Claims on SpecES                                                        *)
(***************************************************************************)
\* the last call stored a new record
StoredNew ==
    /\ lastCall.called /\ lastCall.ret
    /\ file.kind = "json"
    /\ file.data = Append(lastCall.before.data,
                          email_entry(lastCall.email, lastCall.sid, now, lastCall.consent))

\* C4: after any sequence of save_email calls from an empty store, the number
\* of stored records never exceeds MAX_EMAILS_STORED.
C4_CountWithinCap ==
    /\ Len(file.data) <= MAX_EMAILS_STORED
    /\ get_email_count(file) <= MAX_EMAILS_STORED

\* a consenting save of a new address on a store holding MAX_EMAILS_STORED
\* records, under the size cap, was dropped
C4_Witness ==
    /\ lastCall.called /\ lastCall.consent /\ lastCall.ret
    /\ lastCall.before = file
    /\ get_email_count(file) = MAX_EMAILS_STORED
    /\ ~size_over_cap(file.bytes)
    /\ ~is_duplicate(lastCall.email, file.data)

\* C5: after any sequence of save_email calls from an empty store, the size of
\* the file never exceeds the size cap, also right after the write that
\* appends to a store just under the cap.
C5_SizeWithinCap == file.bytes <= EMAILS_FILE_MAX_BYTES

\* C6: a consenting save of an address whose lower-case form is stored returns
\* true and adds nothing; a save that stored a record raised the count by one
\* and saving that address again, in any case, returns true and adds nothing;
\* no two records have the same lower-case address.  (Calls in which no file
\* operation fails.)
C6_DuplicateSave ==
    /\ \A i, j \in DOMAIN file.data :
          lower(file.data[i].email) = lower(file.data[j].email) => i = j
    /\ (/\ lastCall.called /\ lastCall.consent /\ lastCall.failed = "none"
        /\ is_duplicate(lastCall.email, lastCall.before.data))
          => (lastCall.ret /\ file = lastCall.before)
    /\ StoredNew =>
          /\ get_email_count(file) = get_email_count(lastCall.before) + 1
          /\ \A again \in Emails, sid \in Sessions :
                lower(again) = lower(lastCall.email) =>
                    LET r == save_email(file, again, sid, TRUE, "none", now)
                    IN  r.ret /\ r.file = file /\ get_email_count(r.file) = get_email_count(file)

\* an address was saved again in another case than the stored one, on a store
\* under both caps, and nothing was added
C6_Witness ==
    /\ lastCall.called /\ lastCall.consent /\ lastCall.ret /\ lastCall.failed = "none"
    /\ file = lastCall.before
    /\ is_duplicate(lastCall.email, file.data)
    /\ ~is_duplicate_exact(lastCall.email, file.data)
    /\ ~count_reached(file.data) /\ ~size_over_cap(file.bytes)

\* C7: save_email with consent_given = false returns false and leaves the
\* file as it was, without reading or writing it, in every store state.
C7_NoConsent ==
    (lastCall.called /\ ~lastCall.consent)
        => /\ ~lastCall.ret
           /\ file = lastCall.before
           /\ lastCall.reads = 0 /\ lastCall.writes = 0
           /\ lastCall.logged = << >>

\* a call without consent, for an address not yet stored, on a store that
\* holds a record and is under both caps
C7_Witness ==
    /\ lastCall.called /\ ~lastCall.consent
    /\ file.kind = "json" /\ Len(file.data) >= 1
    /\ ~count_reached(file.data) /\ ~size_over_cap(file.bytes)
    /\ ~is_duplicate(lastCall.email, file.data)

\* C8: when the store has reached its record-count cap or its size cap, a
\* consenting save returns true and writes nothing.  (Calls in which no file
\* operation fails.)
C8_CapReachedDrops ==
    (/\ lastCall.called /\ lastCall.consent /\ lastCall.failed = "none"
     /\ \/ Len(lastCall.before.data) >= MAX_EMAILS_STORED
        \/ file_exists(lastCall.before) /\ lastCall.before.bytes >= EMAILS_FILE_MAX_BYTES)
        => (lastCall.ret /\ file = lastCall.before /\ lastCall.writes = 0)

\* C9: the email field of every record save_email writes is the lower-case
\* form of the address submitted.
C9_StoredLowercase ==
    StoredNew => file.data[Len(file.data)].email = lower(lastCall.email)

\* C10: a save in which reading, parsing or writing the file fails returns
\* false; the file is read at most once and opened for writing at most once;
\* a consenting save returns false only when such an operation failed.
C10_FailureReturnsFalse ==
    lastCall.called =>
        /\ (lastCall.failed # "none" => ~lastCall.ret)
        /\ lastCall.reads <= 1 /\ lastCall.writes <= 1
        /\ ((lastCall.consent /\ ~lastCall.ret) => lastCall.failed # "none")

\* json.dump failed on a store that held a record: the call returned false
\* after one read and one write
C10_Witness ==
    /\ lastCall.called /\ lastCall.consent
    /\ lastCall.failed = "dump" /\ ~lastCall.ret
    /\ lastCall.reads = 1 /\ lastCall.writes = 1
    /\ Len(lastCall.before.data) >= 1

(***************************************************************************)
(* SpecESRace: two save_email calls, of two sessions, run at once on the   *)
(* shared file.  save_email takes no lock: the other call may run between  *)
(* its size check, its load, its open for writing and its dump.            *)
(***************************************************************************)
Procs == {1, 2}

SidOf(p) == IF p = 1 THEN "s1" ELSE "s2"

RaceEmails == {Address(<<"a">>, 1), Address(<<"A">>, 1), Address(<<"b">>, 1),
               Address(<<"y">>, MaxEmailLen - 1)}

\* the stores the calls may start from: none, or one record of an earlier save
RaceStores == {NoFile, JsonFile(<<email_entry(Address(<<"c">>, 1), "s1", 0, TRUE)>>)}

InitESRace ==
    /\ InitRLIdle /\ InitRaceIdle /\ InitFnIdle
    /\ file \in RaceStores
    /\ lastCall = [NoCall EXCEPT !.before = file]
    /\ epc = [p \in Procs |-> "start"]
    /\ \E e1 \in RaceEmails, e2 \in RaceEmails, c1 \in BOOLEAN, c2 \in BOOLEAN :
          elocal = [p \in Procs |->
                      [email |-> IF p = 1 THEN e1 ELSE e2,
                       consent_given |-> IF p = 1 THEN c1 ELSE c2,
                       emails_data |-> << >>,
                       ret |-> FALSE]]

Return(p, value) ==
    /\ epc' = [epc EXCEPT ![p] = "done"]
    /\ elocal' = [elocal EXCEPT ![p].ret = value]

\* the consent test, then the size check on the file as it is now
ESizeCheck(p) ==
    /\ epc[p] = "start"
    /\ IF ~elocal[p].consent_given
       THEN Return(p, FALSE)
       ELSE IF file_exists(file) /\ size_over_cap(file.bytes)
       THEN Return(p, TRUE)
       ELSE epc' = [epc EXCEPT ![p] = "load"] /\ UNCHANGED elocal
    /\ UNCHANGED <<rlVars, raceVars, esVars, fnVars>>

\* the load, and the count and duplicate tests on the loaded list
ELoad(p) ==
    /\ epc[p] = "load"
    /\ IF file.kind = "partial"
       THEN Return(p, FALSE)
       ELSE IF count_reached(file.data) \/ is_duplicate(elocal[p].email, file.data)
       THEN Return(p, TRUE)
       ELSE /\ epc' = [epc EXCEPT ![p] = "open"]
            /\ elocal' = [elocal EXCEPT ![p].emails_data =
                            Append(file.data, email_entry(elocal[p].email, SidOf(p), now,
                                                          elocal[p].consent_given))]
    /\ UNCHANGED <<rlVars, raceVars, esVars, fnVars>>

\* open(EMAILS_FILE, 'w') truncates the file
EOpen(p) ==
    /\ epc[p] = "open"
    /\ file' = PartialFile(0)
    /\ epc' = [epc EXCEPT ![p] = "dump"]
    /\ UNCHANGED <<rlVars, raceVars, lastCall, elocal, fnVars>>

\* json.dump and the close write the list from offset 0: what another call
\* wrote since the open is overwritten, and stays as a tail when it is longer
EDump(p) ==
    /\ epc[p] = "dump"
    /\ file' = IF file.bytes <= json_size(elocal[p].emails_data)
               THEN JsonFile(elocal[p].emails_data)
               ELSE PartialFile(file.bytes)
    /\ Return(p, TRUE)
    /\ UNCHANGED <<rlVars, raceVars, lastCall, fnVars>>

NextESRace ==
    \/ \E p \in Procs : ESizeCheck(p)
    \/ \E p \in Procs : ELoad(p)
    \/ \E p \in Procs : EOpen(p)
    \/ \E p \in Procs : EDump(p)

SpecESRace == InitESRace /\ [][NextESRace]_vars

\* the two calls run one after the other, p first: the file left
Serial(p, q) ==
    LET r1 == save_email(lastCall.before, elocal[p].email, SidOf(p),
                         elocal[p].consent_given, "none", now)
        r2 == save_email(r1.file, elocal[q].email, SidOf(q),
                         elocal[q].consent_given, "none", now)
    IN  r2.file

\* C3: under every interleaving of concurrent save_email calls, the final
\* store is the one some sequential order of the calls gives: no accepted
\* record is lost, no address is stored twice, the count cap is kept.
C3_Serializable ==
    (\A p \in Procs : epc[p] = "done") =>
        \E p, q \in Procs : p # q /\ file = Serial(p, q)

(***************************************************************************)
(* Claims on SpecRL: the boundary of the window                            *)
(***************************************************************************)
\* the timestamps of a list that are not older than t - window_seconds
NotOlder(stamps, window_seconds, t) ==
    SelectSeq(stamps, LAMBDA ts : ts >= t - window_seconds)

\* C14: a check removes exactly the timestamps older than now - window (one
\* that is exactly a window old stays and counts) and allows exactly when
\* fewer than limit remain
C14_PruneKeepsBoundary ==
    [][\A a \in Actions :
          checks'[a].n = checks[a].n + 1 =>
              LET key  == get_session_key(a)
                  kept == NotOlder(with_key(session_state, key)[key], window, now)
              IN  /\ session_state'[key] = kept
                  /\ checks'[a].allowed <=> (Len(kept) < limits[a])]_vars

(***************************************************************************)
(* Sanitizer: sanitize_string                                              *)
(***************************************************************************)
CSV_LIMITS ==
    [max_rows |-> 500, max_columns |-> 50, max_cell_length |-> 200,
     max_file_size_mb |-> 10]

Literal(text) == [kind |-> "literal", text |-> text]

\* the patterns, in the order of the list: ^=  ^@  ^\+  ^-(?!\d)  ^!  ^\|  ^;
\* <script  javascript:  data:  on\w+=
DANGEROUS_PATTERNS ==
    << Literal(<<"=">>), Literal(<<"@">>), Literal(<<"+">>),
       [kind |-> "minus_no_digit", text |-> <<"-">>],
       Literal(<<"!">>), Literal(<<"|">>), Literal(<<";">>),
       Literal(<<"<", "s", "c", "r", "i", "p", "t">>),
       Literal(<<"j", "a", "v", "a", "s", "c", "r", "i", "p", "t", ":">>),
       Literal(<<"d", "a", "t", "a", ":">>),
       [kind |-> "on_handler", text |-> <<"o", "n">>] >>

\* the pattern's literal text stands at the start of value, letters compared
\* without case (re.IGNORECASE)
starts_with(text, value) ==
    /\ Len(value) >= Len(text)
    /\ \A i \in DOMAIN text : LowerChar(value[i]) = LowerChar(text[i])

\* the match with the lookahead (?!\d) left out of the minus pattern
re_match_no_lookahead(pattern, value) ==
    /\ starts_with(pattern.text, value)
    /\ pattern.kind = "on_handler" =>
          \E k \in 4..Len(value) :
              value[k] = "=" /\ \A j \in 3..(k - 1) : IsWordChar(value[j])

\* re.match(pattern, value, re.IGNORECASE): the pattern matches at the start
\* of value
re_match(pattern, value) ==
    /\ starts_with(pattern.text, value)
    /\ pattern.kind = "minus_no_digit" => (Len(value) < 2 \/ ~IsDigit(value[2]))
    /\ pattern.kind = "on_handler" =>
          \E k \in 4..Len(value) :
              value[k] = "=" /\ \A j \in 3..(k - 1) : IsWordChar(value[j])

RECURSIVE lstrip(_)
lstrip(value) ==
    IF value # << >> /\ Head(value) \in Whitespace THEN lstrip(Tail(value)) ELSE value

RECURSIVE rstrip(_)
rstrip(value) ==
    IF value # << >> /\ value[Len(value)] \in Whitespace
    THEN rstrip(SubSeq(value, 1, Len(value) - 1))
    ELSE value

\* value.strip()
strip(value) == rstrip(lstrip(value))

\* value.replace('\x00', '')
remove_nulls(value) == SelectSeq(value, LAMBDA c : c # NUL)

\* the loop over the patterns: a quote is put before the value at the first
\* pattern that matches, and the loop ends
quote_if_dangerous(value) ==
    IF \E i \in DOMAIN DANGEROUS_PATTERNS : re_match(DANGEROUS_PATTERNS[i], value)
    THEN <<"'">> \o value
    ELSE value

\* the value left at its length
truncate_never(value) == value

\* value[:max_cell_length] when the value is longer
truncate(value) ==
    IF Len(value) > CSV_LIMITS.max_cell_length
    THEN SubSeq(value, 1, CSV_LIMITS.max_cell_length)
    ELSE value

\* a Python object passed as value: a str, or something else with its str()
Str(text)          == [type |-> "str", text |-> text]
Object(type, text) == [type |-> type, text |-> text]

\* sanitize_string without the strip
sanitize_string_no_strip(value) ==
    IF value.type # "str" THEN value.text
    ELSE truncate(quote_if_dangerous(remove_nulls(value.text)))

\* sanitize_string(value): the returned str
sanitize_string(value) ==
    IF value.type # "str" THEN value.text
    ELSE truncate(quote_if_dangerous(remove_nulls(strip(value.text))))

\* a line handed to the logger: its level, its fixed text and the characters
\* formatted into it
LogLine(level, text, content) == [level |-> level, text |-> text, content |-> content]

\* the lines sanitize_string(value) logs: a warning with value[:50] once the
\* quote is put before the value, and a warning without content when the
\* value is cut
sanitize_string_warnings(value) ==
    IF value.type # "str" THEN << >>
    ELSE LET clean  == remove_nulls(strip(value.text))
             quoted == quote_if_dangerous(clean)
             shown  == IF Len(quoted) > 50 THEN SubSeq(quoted, 1, 50) ELSE quoted
         IN  (IF quoted # clean
              THEN <<LogLine("warning", "Sanitized potentially dangerous input: ", shown)>>
              ELSE << >>)
             \o (IF Len(quoted) > CSV_LIMITS.max_cell_length
                 THEN <<LogLine("warning", "Truncated oversized cell content", << >>)>>
                 ELSE << >>)

(***************************************************************************)
(* SpecSan: one call of sanitize_string on a value put together from       *)
(* pieces.                                                                 *)
(***************************************************************************)
MaxPieces == 3      \* a value is at most MaxPieces pieces long

\* a run of letters one character short of the cell cap
LongRun == Repeat("x", CSV_LIMITS.max_cell_length - 1)

Pieces ==
    { <<" ">>, <<NUL>>, <<"=">>, <<"@">>, <<"+">>, <<"-">>, <<"!">>, <<"|">>,
      <<";">>, <<"5">>, <<"a">>, <<"o", "n">>,
      <<"<", "s", "c", "r", "i", "p", "t">>,
      <<"<", "S", "c", "r", "i", "p", "t">>,
      <<"j", "a", "v", "a", "s", "c", "r", "i", "p", "t", ":">>,
      <<"d", "a", "t", "a", ":">>,
      LongRun }

RECURSIVE Texts(_)
\* the strings of at most n pieces
Texts(n) ==
    IF n = 0 THEN {<< >>}
    ELSE LET shorter == Texts(n - 1)
         IN  shorter \cup {p \o t : p \in Pieces, t \in shorter}

\* what is passed: strings, and two objects that are not strings
Values ==
    {Str(t) : t \in Texts(MaxPieces)}
        \cup {Object("int", <<"5">>), Object("float", <<"-", "i", "n", "f">>)}

\* no return yet
NoReturn == [done |-> FALSE]

InitSan ==
    /\ value_arg \in Values
    /\ value_ret = NoReturn
    /\ InitRLIdle /\ InitRaceIdle /\ InitESState /\ InitESRaceIdle
    /\ InitVEIdle /\ InitCSVIdle /\ InitAppIdle

Sanitize ==
    /\ ~value_ret.done
    /\ value_ret' = [done |-> TRUE, value |-> sanitize_string(value_arg),
                     warnings |-> sanitize_string_warnings(value_arg)]
    /\ UNCHANGED <<value_arg, rlVars, raceVars, esVars, esRaceVars, veVars, csvVars, appVars>>

\* the returned string is passed to sanitize_string once more
SanitizeAgain ==
    /\ value_ret.done
    /\ "again" \notin DOMAIN value_ret
    /\ value_ret' = [done |-> TRUE, value |-> value_ret.value,
                     warnings |-> value_ret.warnings
                                     \o sanitize_string_warnings(Str(value_ret.value)),
                     again |-> sanitize_string(Str(value_ret.value))]
    /\ UNCHANGED <<value_arg, rlVars, raceVars, esVars, esRaceVars, veVars, csvVars, appVars>>

NextSan == Sanitize \/ SanitizeAgain

SpecSan == InitSan /\ [][NextSan]_vars

(***************************************************************************)
(* Claims on SpecSan                                                       *)
(***************************************************************************)
\* the value once trimmed and freed of null characters
Cleaned(value) == remove_nulls(strip(value.text))

\* text stands at the start of v, whatever the case of the letters
Begins(v, text) ==
    /\ Len(v) >= Len(text)
    /\ \A i \in DOMAIN text : LowerChar(v[i]) = LowerChar(text[i])

\* v starts with an event-handler attribute: on, word characters, =
BeginsWithHandler(v) ==
    /\ Begins(v, <<"o", "n">>)
    /\ \E k \in 4..Len(v) : v[k] = "=" /\ \A j \in 3..(k - 1) : IsWordChar(v[j])

\* v starts with one of the injection signatures
BeginsWithSignature(v) ==
    /\ v # << >>
    /\ \/ v[1] \in {"=", "@", "+", "!", "|", ";"}
       \/ v[1] = "-" /\ ~(Len(v) >= 2 /\ v[2] \in Digits)
       \/ Begins(v, <<"<", "s", "c", "r", "i", "p", "t">>)
       \/ Begins(v, <<"j", "a", "v", "a", "s", "c", "r", "i", "p", "t", ":">>)
       \/ Begins(v, <<"d", "a", "t", "a", ":">>)
       \/ BeginsWithHandler(v)

\* C15: a string that, once trimmed and freed of null characters, starts
\* with an injection signature comes back starting with the quote marker
C15_DangerousQuoted ==
    (value_ret.done /\ value_arg.type = "str" /\ BeginsWithSignature(Cleaned(value_arg)))
        => (value_ret.value # << >> /\ value_ret.value[1] = "'")

\* a padded, upper-case script tag so long that the quoted value is cut
C15_Witness ==
    /\ value_ret.done
    /\ value_arg = Str(<<" ">> \o <<"<", "S", "c", "r", "i", "p", "t">> \o LongRun)
    /\ Len(value_ret.value) = CSV_LIMITS.max_cell_length
    /\ value_ret.value[1] = "'"

\* a string with no white space at either end, no null character, no
\* injection signature at its start and at most max_cell_length characters
AlreadyClean(v) ==
    /\ v = << >> \/ (v[1] \notin Whitespace /\ v[Len(v)] \notin Whitespace)
    /\ \A i \in DOMAIN v : v[i] # NUL
    /\ ~BeginsWithSignature(v)
    /\ Len(v) <= CSV_LIMITS.max_cell_length

\* C16: a string that is already clean comes back unchanged, the empty string
\* and a minus followed by a digit included
C16_CleanUnchanged ==
    (value_ret.done /\ value_arg.type = "str" /\ AlreadyClean(value_arg.text))
        => value_ret.value = value_arg.text

\* "-5" came back as "-5"
C16_Witness ==
    /\ value_ret.done
    /\ value_arg = Str(<<"-", "5">>)
    /\ value_ret.value = <<"-", "5">>

(***************************************************************************)
(* EmailValidator: validate_email and check_mx_record                      *)
(***************************************************************************)
DISPOSABLE_EMAIL_DOMAINS ==
    {<<"m", "a", "i", "l", "i", "n", "a", "t", "o", "r", ".", "c", "o", "m">>,
      <<"g", "u", "e", "r", "r", "i", "l", "l", "a", "m", "a", "i", "l", ".", "c", "o", "m">>,
      <<"t", "e", "m", "p", "m", "a", "i", "l", ".", "c", "o", "m">>,
      <<"t", "h", "r", "o", "w", "a", "w", "a", "y", ".", "e", "m", "a", "i", "l">>,
      <<"1", "0", "m", "i", "n", "u", "t", "e", "m", "a", "i", "l", ".", "c", "o", "m">>,
      <<"t", "e", "m", "p", "-", "m", "a", "i", "l", ".", "o", "r", "g">>,
      <<"f", "a", "k", "e", "i", "n", "b", "o", "x", ".", "c", "o", "m">>,
      <<"t", "r", "a", "s", "h", "m", "a", "i", "l", ".", "c", "o", "m">>,
      <<"m", "a", "i", "l", "n", "e", "s", "i", "a", ".", "c", "o", "m">>,
      <<"t", "e", "m", "p", "a", "i", "l", ".", "c", "o", "m">>,
      <<"d", "i", "s", "p", "o", "s", "t", "a", "b", "l", "e", ".", "c", "o", "m">>,
      <<"m", "a", "i", "l", "c", "a", "t", "c", "h", ".", "c", "o", "m">>,
      <<"y", "o", "p", "m", "a", "i", "l", ".", "c", "o", "m">>,
      <<"s", "h", "a", "r", "k", "l", "a", "s", "e", "r", "s", ".", "c", "o", "m">>,
      <<"g", "u", "e", "r", "r", "i", "l", "l", "a", "m", "a", "i", "l", ".", "i", "n", "f", "o">>,
      <<"g", "r", "r", ".", "l", "a">>,
      <<"g", "u", "e", "r", "r", "i", "l", "l", "a", "m", "a", "i", "l", ".", "b", "i", "z">>,
      <<"g", "u", "e", "r", "r", "i", "l", "l", "a", "m", "a", "i", "l", ".", "d", "e">>,
      <<"g", "u", "e", "r", "r", "i", "l", "l", "a", "m", "a", "i", "l", ".", "n", "e", "t">>,
      <<"g", "u", "e", "r", "r", "i", "l", "l", "a", "m", "a", "i", "l", ".", "o", "r", "g">>,
      <<"s", "p", "a", "m", "4", ".", "m", "e">>,
      <<"g", "e", "t", "a", "i", "r", "m", "a", "i", "l", ".", "c", "o", "m">>,
      <<"t", "h", "r", "o", "w", "a", "w", "a", "y", "m", "a", "i", "l", ".", "c", "o", "m">>,
      <<"g", "e", "t", "n", "a", "d", "a", ".", "c", "o", "m">>,
      <<"t", "e", "m", "p", "i", "n", "b", "o", "x", ".", "c", "o", "m">>,
      <<"e", "m", "a", "i", "l", "o", "n", "d", "e", "c", "k", ".", "c", "o", "m">>,
      <<"f", "a", "k", "e", "m", "a", "i", "l", "g", "e", "n", "e", "r", "a", "t", "o", "r", ".", "c", "o", "m">>,
      <<"m", "a", "i", "l", "f", "o", "r", "s", "p", "a", "m", ".", "c", "o", "m">>,
      <<"t", "e", "m", "p", "r", ".", "e", "m", "a", "i", "l">>,
      <<"d", "i", "s", "c", "a", "r", "d", ".", "e", "m", "a", "i", "l">>,
      <<"d", "i", "s", "c", "a", "r", "d", "m", "a", "i", "l", ".", "c", "o", "m">>,
      <<"s", "p", "a", "m", "g", "o", "u", "r", "m", "e", "t", ".", "c", "o", "m">>,
      <<"m", "y", "t", "r", "a", "s", "h", "m", "a", "i", "l", ".", "c", "o", "m">>,
      <<"m", "t", "2", "0", "0", "9", ".", "c", "o", "m">>,
      <<"t", "h", "a", "n", "k", "y", "o", "u", "2", "0", "1", "0", ".", "c", "o", "m">>,
      <<"s", "p", "a", "m", ".", "l", "a">>,
      <<"s", "p", "e", "e", "d", ".", "1", "s", ".", "f", "r">>,
      <<"s", "p", "a", "m", "f", "r", "e", "e", "2", "4", ".", "o", "r", "g">>,
      <<"s", "p", "a", "m", "f", "r", "e", "e", "2", "4", ".", "d", "e">>,
      <<"s", "p", "a", "m", "f", "r", "e", "e", "2", "4", ".", "e", "u">>,
      <<"s", "p", "a", "m", "f", "r", "e", "e", "2", "4", ".", "i", "n", "f", "o">>,
      <<"s", "p", "a", "m", "f", "r", "e", "e", "2", "4", ".", "n", "e", "t">>,
      <<"w", "e", "g", "w", "e", "r", "f", "m", "a", "i", "l", ".", "d", "e">>,
      <<"w", "e", "g", "w", "e", "r", "f", "m", "a", "i", "l", ".", "n", "e", "t">>,
      <<"w", "e", "g", "w", "e", "r", "f", "m", "a", "i", "l", ".", "o", "r", "g">>,
      <<"m", "e", "l", "t", "m", "a", "i", "l", ".", "c", "o", "m">>,
      <<"m", "i", "n", "t", "e", "m", "a", "i", "l", ".", "c", "o", "m">>,
      <<"t", "e", "m", "p", "m", "a", "i", "l", "a", "d", "d", "r", "e", "s", "s", ".", "c", "o", "m">>,
      <<"b", "u", "r", "n", "e", "r", "m", "a", "i", "l", ".", "i", "o">>,
      <<"m", "a", "i", "l", "d", "r", "o", "p", ".", "c", "c">>,
      <<"i", "n", "b", "o", "x", "a", "l", "i", "a", "s", ".", "c", "o", "m">> }

\* a pair of the table: the mistyped domain and the domain meant
Typo(wrong, right) == <<wrong, right>>

EMAIL_TYPO_CORRECTIONS ==
    { Typo(<<"g", "a", "m", "i", "l", ".", "c", "o", "m">>,
           <<"g", "m", "a", "i", "l", ".", "c", "o", "m">>),
      Typo(<<"g", "m", "i", "a", "l", ".", "c", "o", "m">>,
           <<"g", "m", "a", "i", "l", ".", "c", "o", "m">>),
      Typo(<<"g", "m", "a", "l", ".", "c", "o", "m">>,
           <<"g", "m", "a", "i", "l", ".", "c", "o", "m">>),
      Typo(<<"g", "m", "a", "i", "l", ".", "c", "o">>,
           <<"g", "m", "a", "i", "l", ".", "c", "o", "m">>),
      Typo(<<"g", "m", "a", "i", "l", "l", ".", "c", "o", "m">>,
           <<"g", "m", "a", "i", "l", ".", "c", "o", "m">>),
      Typo(<<"g", "n", "a", "i", "l", ".", "c", "o", "m">>,
           <<"g", "m", "a", "i", "l", ".", "c", "o", "m">>),
      Typo(<<"g", "m", "a", "i", "l", ".", "c", "m">>,
           <<"g", "m", "a", "i", "l", ".", "c", "o", "m">>),
      Typo(<<"g", "m", "a", "i", "l", ".", "o", "m">>,
           <<"g", "m", "a", "i", "l", ".", "c", "o", "m">>),
      Typo(<<"h", "o", "t", "m", "a", "l", ".", "c", "o", "m">>,
           <<"h", "o", "t", "m", "a", "i", "l", ".", "c", "o", "m">>),
      Typo(<<"h", "o", "t", "m", "a", "i", ".", "c", "o", "m">>,
           <<"h", "o", "t", "m", "a", "i", "l", ".", "c", "o", "m">>),
      Typo(<<"h", "o", "t", "m", "i", "l", ".", "c", "o", "m">>,
           <<"h", "o", "t", "m", "a", "i", "l", ".", "c", "o", "m">>),
      Typo(<<"h", "o", "t", "m", "a", "i", "l", ".", "c", "o">>,
           <<"h", "o", "t", "m", "a", "i", "l", ".", "c", "o", "m">>),
      Typo(<<"o", "u", "t", "l", "o", "k", ".", "c", "o", "m">>,
           <<"o", "u", "t", "l", "o", "o", "k", ".", "c", "o", "m">>),
      Typo(<<"o", "u", "t", "l", "o", "o", ".", "c", "o", "m">>,
           <<"o", "u", "t", "l", "o", "o", "k", ".", "c", "o", "m">>),
      Typo(<<"o", "u", "t", "l", "o", "o", "k", ".", "c", "o">>,
           <<"o", "u", "t", "l", "o", "o", "k", ".", "c", "o", "m">>),
      Typo(<<"y", "a", "h", "o", ".", "c", "o", "m">>,
           <<"y", "a", "h", "o", "o", ".", "c", "o", "m">>),
      Typo(<<"y", "a", "h", "o", "o", "o", ".", "c", "o", "m">>,
           <<"y", "a", "h", "o", "o", ".", "c", "o", "m">>),
      Typo(<<"y", "a", "h", "o", "o", ".", "c", "o">>,
           <<"y", "a", "h", "o", "o", ".", "c", "o", "m">>),
      Typo(<<"y", "a", "h", "o", "o", "m", "a", "i", "l", ".", "c", "o", "m">>,
           <<"y", "a", "h", "o", "o", ".", "c", "o", "m">>),
      Typo(<<"i", "c", "l", "u", "d", ".", "c", "o", "m">>,
           <<"i", "c", "l", "o", "u", "d", ".", "c", "o", "m">>),
      Typo(<<"i", "c", "o", "u", "d", ".", "c", "o", "m">>,
           <<"i", "c", "l", "o", "u", "d", ".", "c", "o", "m">>),
      Typo(<<"i", "c", "l", "o", "u", "d", ".", "c", "o">>,
           <<"i", "c", "l", "o", "u", "d", ".", "c", "o", "m">>) }

\* Optional[str]: None, or a string
None       == << >>
Some(text) == <<text>>

\* the character classes of email_pattern
LocalChars  == Letters \cup Digits \cup {".", "_", "%", "+", "-"}
DomainChars == Letters \cup Digits \cup {".", "-"}

\* re.match(r'^[a-zA-Z0-9._%+-]+@[a-zA-Z0-9.-]+\.[a-zA-Z]{2,}$', email):
\* the "@" stands at place at, the "." before the last letters at place dot
email_pattern(email) ==
    \E at \in DOMAIN email :
        /\ email[at] = "@"
        /\ at > 1
        /\ \A i \in 1..(at - 1) : email[i] \in LocalChars
        /\ \E dot \in (at + 2)..Len(email) :
              /\ email[dot] = "."
              /\ \A i \in (at + 1)..(dot - 1) : email[i] \in DomainChars
              /\ Len(email) - dot >= 2
              /\ \A i \in (dot + 1)..Len(email) : email[i] \in Letters

\* email.lower()
lower_text(email) == [i \in DOMAIN email |-> LowerChar(email[i])]

\* email.rsplit('@', 1): the places of "@" and the two parts at the last one
at_places(email)  == {i \in DOMAIN email : email[i] = "@"}
last_at(email)    == CHOOSE i \in at_places(email) : \A j \in at_places(email) : j <= i
local_part(email) == SubSeq(email, 1, last_at(email) - 1)
domain_of(email)  == SubSeq(email, last_at(email) + 1, Len(email))

\* domain.split('.'): each label as the pair of places that bound it, among
\* 0, the places of the dots and Len(domain) + 1
dot_places(domain) == {0, Len(domain) + 1} \cup {i \in DOMAIN domain : domain[i] = "."}
labels(domain) ==
    {p \in dot_places(domain) \X dot_places(domain) :
        p[1] < p[2] /\ ~\E k \in dot_places(domain) : p[1] < k /\ k < p[2]}

\* the name cannot be encoded: a label of more than 63 characters, or an
\* empty label that is not the last
label_empty_or_too_long(domain) ==
    \E p \in labels(domain) :
        \/ p[2] - p[1] - 1 > 63
        \/ p[2] - p[1] - 1 = 0 /\ p[2] # Len(domain) + 1

\* socket.getaddrinfo(domain, None) encodes the name before any lookup and
\* raises UnicodeError when it cannot; any other name is looked up, and the
\* lookup answers, fails (gaierror) or times out
Resolutions(domain) ==
    IF label_empty_or_too_long(domain)
    THEN {"UnicodeError"}
    ELSE {"resolved", "gaierror", "timeout"}

\* the result of a call: a returned value or an exception that leaves it
Returns(value)   == [raised |-> FALSE, value |-> value]
Raises(exception) == [raised |-> TRUE, exception |-> exception]

\* check_mx_record(domain), the lookup ending as resolution says
check_mx_record(domain, resolution) ==
    CASE resolution = "resolved" -> Returns(TRUE)
      [] resolution \in {"gaierror", "timeout"} -> Returns(FALSE)
      [] OTHER -> Raises(resolution)

\* a message: its fixed text and the value formatted into it
Message(text, about) == [text |-> text, about |-> about]

\* what validate_email returns, with the number of lookups it made
Verdict(is_valid, message, suggestion, lookups) ==
    [raised |-> FALSE, is_valid |-> is_valid, message |-> message,
     suggestion |-> suggestion, lookups |-> lookups]

\* domain in EMAIL_TYPO_CORRECTIONS, and EMAIL_TYPO_CORRECTIONS[domain]
is_typo(domain) == \E t \in EMAIL_TYPO_CORRECTIONS : t[1] = domain
correct_domain(domain) == (CHOOSE t \in EMAIL_TYPO_CORRECTIONS : t[1] = domain)[2]

\* a suggestion that keeps the mistyped domain
suggestion_unchanged(local, domain) == local \o <<"@">> \o domain

\* f"{local_part}@{correct_domain}"
suggestion(local, domain) == local \o <<"@">> \o correct_domain(domain)

\* the last stage: the lookup
validate_lookup(domain, resolution) ==
    LET mx == check_mx_record(domain, resolution)
    IN  IF mx.raised THEN [raised |-> TRUE, exception |-> mx.exception, lookups |-> 1]
        ELSE IF ~mx.value
        THEN Verdict(FALSE,
                     Message("The domain doesn't appear to exist. Please check your email address.",
                             domain),
                     None, 1)
        ELSE Verdict(TRUE, Message("", << >>), None, 1)

\* the stages after the split, in the order typo table, blocklist, lookup
validate_domain(local, domain, resolution) ==
    IF is_typo(domain)
    THEN Verdict(FALSE, Message("Did you mean ?", suggestion(local, domain)),
                 Some(suggestion(local, domain)), 0)
    ELSE IF domain \in DISPOSABLE_EMAIL_DOMAINS
    THEN Verdict(FALSE,
                 Message("Temporary email addresses are not allowed. Please use your regular email.",
                         << >>),
                 None, 0)
    ELSE validate_lookup(domain, resolution)

\* the format stage tried before the length
validate_normalized_format_first(email, resolution) ==
    IF ~email_pattern(email)
    THEN Verdict(FALSE, Message("Invalid email format. Please check for typos.", << >>), None, 0)
    ELSE IF Len(email) > 254
    THEN Verdict(FALSE, Message("Email address too long", << >>), None, 0)
    ELSE validate_domain(local_part(email), domain_of(email), resolution)

\* the stages on the trimmed, lower-case address
validate_normalized(email, resolution) ==
    IF Len(email) > 254
    THEN Verdict(FALSE, Message("Email address too long", << >>), None, 0)
    ELSE IF ~email_pattern(email)
    THEN Verdict(FALSE, Message("Invalid email format. Please check for typos.", << >>), None, 0)
    ELSE IF at_places(email) = {}
    THEN Verdict(FALSE, Message("Invalid email format", << >>), None, 0)
    ELSE IF local_part(email) = << >>
    THEN Verdict(FALSE, Message("Invalid email format", << >>), None, 0)
    ELSE validate_domain(local_part(email), domain_of(email), resolution)

\* validate_email(email), a lookup ending as resolution says
validate_email(email, resolution) ==
    IF email = << >>
    THEN Verdict(FALSE, Message("Email is required", << >>), None, 0)
    ELSE validate_normalized(lower_text(strip(email)), resolution)

(***************************************************************************)
(* SpecVE: one call of validate_email on an address put together from      *)
(* pieces, with every way the lookup of its domain can end.                *)
(***************************************************************************)
MaxEmailPieces == 4     \* an address is at most MaxEmailPieces pieces long

\* a label one character too long to be encoded
LongLabel == Repeat("a", 64)

EmailPieces ==
    { <<"u", "s", "e", "r">>, <<"@">>, <<".", "c", "o", "m">>, <<".", "c">>,
      <<"g", "m", "i", "a", "l", ".", "c", "o", "m">>,
      <<"m", "a", "i", "l", "i", "n", "a", "t", "o", "r", ".", "c", "o", "m">>,
      <<" ">>, <<"C">>, LongLabel }

RECURSIVE EmailTexts(_)
\* the strings of at most n pieces
EmailTexts(n) ==
    IF n = 0 THEN {<< >>}
    ELSE LET shorter == EmailTexts(n - 1)
         IN  shorter \cup {p \o t : p \in EmailPieces, t \in shorter}

\* the ways a lookup can end for this call: those of its domain when the
\* address has one, and no lookup otherwise
ResolutionsOf(email) ==
    LET e == lower_text(strip(email))
    IN  IF at_places(e) = {} THEN {"resolved"} ELSE Resolutions(domain_of(e))

InitVE ==
    /\ email_arg \in EmailTexts(MaxEmailPieces)
    /\ email_ret = NoReturn
    /\ InitRLIdle /\ InitRaceIdle /\ InitESState /\ InitESRaceIdle
    /\ InitSanIdle /\ InitCSVIdle /\ InitAppIdle

ValidateEmail ==
    /\ ~email_ret.done
    /\ \E resolution \in ResolutionsOf(email_arg) :
          LET result == validate_email(email_arg, resolution)
          IN  email_ret' = [done |-> TRUE,
                            resolution |-> IF result.lookups = 0 THEN "none"
                                           ELSE resolution,
                            result |-> result]
    /\ UNCHANGED <<email_arg, rlVars, raceVars, esVars, esRaceVars, sanVars, csvVars, appVars>>

NextVE == ValidateEmail

SpecVE == InitVE /\ [][NextVE]_vars

(***************************************************************************)
(* Claims on SpecVE                                                        *)
(***************************************************************************)
\* C11: validate_email never raises, whatever the string and however the
\* lookup of the domain ends, and a lookup that does not resolve gives
\* is_valid = false
C11_NeverRaises ==
    email_ret.done =>
        /\ ~email_ret.result.raised
        /\ email_ret.resolution \notin {"none", "resolved"} => ~email_ret.result.is_valid


\* the address as the stages see it, and its two parts
Normalized == lower_text(strip(email_arg))
LocalPart  == local_part(Normalized)
Domain     == domain_of(Normalized)

\* the first stage the submitted address fails, in the order length, format,
\* typo table, blocklist, liveness; "none" when it passes them all
FirstFailing ==
    IF email_arg = << >> \/ Len(Normalized) > 254 THEN "length"
    ELSE IF ~email_pattern(Normalized) THEN "format"
    ELSE IF is_typo(Domain) THEN "typo"
    ELSE IF Domain \in DISPOSABLE_EMAIL_DOMAINS THEN "disposable"
    ELSE IF email_ret.resolution # "resolved" THEN "liveness"
    ELSE "none"

\* the message of each stage
StageText(stage) ==
    CASE stage = "length" ->
            IF email_arg = << >> THEN "Email is required" ELSE "Email address too long"
      [] stage = "format" -> "Invalid email format. Please check for typos."
      [] stage = "typo" -> "Did you mean ?"
      [] stage = "disposable" ->
            "Temporary email addresses are not allowed. Please use your regular email."
      [] stage = "liveness" ->
            "The domain doesn't appear to exist. Please check your email address."
      [] OTHER -> ""

\* C12: is_valid is true only for an address that passes the stages length,
\* format, typo table, blocklist, liveness; the first stage that fails alone
\* decides the message; the domain is looked up only when every earlier stage
\* passed
C12_StagesInOrder ==
    email_ret.done =>
        /\ email_ret.result.lookups = (IF FirstFailing \in {"liveness", "none"} THEN 1 ELSE 0)
        /\ ~email_ret.result.raised =>
              /\ email_ret.result.is_valid <=> (FirstFailing = "none")
              /\ email_ret.result.message.text = StageText(FirstFailing)

\* an address of 256 characters without "@" fails the length and the format:
\* the length decides
C12_Witness ==
    /\ email_ret.done
    /\ email_arg = LongLabel \o LongLabel \o LongLabel \o LongLabel
    /\ email_ret.result.message.text = "Email address too long"
    /\ email_ret.result.lookups = 0


\* the submitted address has a domain: it passed the length and the format
HasDomain ==
    email_arg # << >> /\ Len(Normalized) <= 254 /\ email_pattern(Normalized)

\* the domain is a key of the typo table
TypoDomain == HasDomain /\ \E t \in EMAIL_TYPO_CORRECTIONS : t[1] = Domain

\* C13: a suggestion is returned exactly when the normalized domain is a key
\* of the typo table; is_valid is then false and the suggestion is the local
\* part, "@" and the corrected domain; a disposable domain is rejected with
\* the disposable message and no suggestion
C13_TypoSuggestion ==
    (email_ret.done /\ ~email_ret.result.raised) =>
        /\ (email_ret.result.suggestion # None) <=> TypoDomain
        /\ TypoDomain =>
              /\ ~email_ret.result.is_valid
              /\ \E t \in EMAIL_TYPO_CORRECTIONS :
                    /\ t[1] = Domain
                    /\ email_ret.result.suggestion = Some(LocalPart \o <<"@">> \o t[2])
        /\ (HasDomain /\ Domain \in DISPOSABLE_EMAIL_DOMAINS) =>
              /\ ~email_ret.result.is_valid
              /\ email_ret.result.suggestion = None
              /\ email_ret.result.message.text =
                    "Temporary email addresses are not allowed. Please use your regular email."

\* user@gmial.com came back with the suggestion user@gmail.com
C13_Witness ==
    /\ email_ret.done
    /\ email_arg = <<"u", "s", "e", "r", "@", "g", "m", "i", "a", "l", ".", "c", "o", "m">>
    /\ ~email_ret.result.is_valid
    /\ email_ret.result.suggestion =
          Some(<<"u", "s", "e", "r", "@", "g", "m", "a", "i", "l", ".", "c", "o", "m">>)

(***************************************************************************)
(* CSV Guard: validate_csv_security                                        *)
(*                                                                         *)
(* A DataFrame is its columns, each a name and a dtype, and its rows.      *)
(* Equal consecutive rows are kept as one block with the number of times   *)
(* the row stands there, so that a table of max_rows rows stays small.     *)
(***************************************************************************)
Column(name, dtype)      == [name |-> name, dtype |-> dtype]
Block(cells, times)      == [cells |-> cells, times |-> times]
DataFrame(columns, rows) == [columns |-> columns, rows |-> rows]

\* str(x)
py_str(x) == x.text

\* a missing cell, and pd.notna(x)
NaN      == Object("NaN", <<"n", "a", "n">>)
notna(x) == x.type # "NaN"

RECURSIVE sum_times(_)
sum_times(rows) ==
    IF rows = << >> THEN 0 ELSE Head(rows).times + sum_times(Tail(rows))

\* len(df) and len(df.columns)
df_len(df)    == sum_times(df.rows)
n_columns(df) == Len(df.columns)

\* file_size_bytes / (1024 * 1024) > max_file_size_mb: the division by a
\* power of two is exact, so the test is one on bytes
file_too_large(file_size_bytes) ==
    file_size_bytes > CSV_LIMITS.max_file_size_mb * 1024 * 1024

\* f"{file_size_mb:.1f}": the size in tenths of a megabyte, rounded to the
\* nearest tenth and to the even one at a tie
mb_tenths(file_size_bytes) ==
    LET q == (file_size_bytes * 10) \div (1024 * 1024)
        r == (file_size_bytes * 10) % (1024 * 1024)
    IN  IF 2 * r > 1024 * 1024 \/ (2 * r = 1024 * 1024 /\ q % 2 = 1) THEN q + 1 ELSE q

\* the row test written with >= : a table of exactly max_rows rows is refused
too_many_rows_ge(n) == n >= CSV_LIMITS.max_rows

\* len(df) > max_rows and len(df.columns) > max_columns
too_many_rows(n)    == n > CSV_LIMITS.max_rows
too_many_columns(n) == n > CSV_LIMITS.max_columns

\* the checks with the row count tried before the file size
structural_check_rows_first(df, file_size_bytes) ==
    IF too_many_rows(df_len(df))
    THEN Message("Too many rows. Maximum is athletes, got",
                 <<CSV_LIMITS.max_rows, df_len(df)>>)
    ELSE IF file_too_large(file_size_bytes)
    THEN Message("File too large. Maximum size is MB, got MB",
                 <<CSV_LIMITS.max_file_size_mb, mb_tenths(file_size_bytes)>>)
    ELSE IF too_many_columns(n_columns(df))
    THEN Message("Too many columns. Maximum is, got",
                 <<CSV_LIMITS.max_columns, n_columns(df)>>)
    ELSE IF df_len(df) = 0
    THEN Message("CSV file is empty", << >>)
    ELSE Message("", << >>)

\* the four checks in their order: the message of the first that fails, the
\* empty message when none does
structural_check(df, file_size_bytes) ==
    IF file_too_large(file_size_bytes)
    THEN Message("File too large. Maximum size is MB, got MB",
                 <<CSV_LIMITS.max_file_size_mb, mb_tenths(file_size_bytes)>>)
    ELSE IF too_many_rows(df_len(df))
    THEN Message("Too many rows. Maximum is athletes, got",
                 <<CSV_LIMITS.max_rows, df_len(df)>>)
    ELSE IF too_many_columns(n_columns(df))
    THEN Message("Too many columns. Maximum is, got",
                 <<CSV_LIMITS.max_columns, n_columns(df)>>)
    ELSE IF df_len(df) = 0
    THEN Message("CSV file is empty", << >>)
    ELSE Message("", << >>)

\* lambda x: sanitize_string(str(x)) if pd.notna(x) else x
sanitize_cell(x) == IF notna(x) THEN Str(sanitize_string(Str(py_str(x)))) ELSE x

\* df[col] = df[col].apply(...) for every column of dtype object
sanitize_cells(df) ==
    [df EXCEPT !.rows =
        [b \in DOMAIN df.rows |->
            [df.rows[b] EXCEPT !.cells =
                [c \in DOMAIN df.columns |->
                    IF df.columns[c].dtype = "object"
                    THEN sanitize_cell(df.rows[b].cells[c])
                    ELSE df.rows[b].cells[c]]]]]

\* df.rename(columns=sanitized_columns): a new table with the names sanitized
rename_columns(df) ==
    [df EXCEPT !.columns =
        [c \in DOMAIN df.columns |->
            [df.columns[c] EXCEPT
                !.name = Str(sanitize_string(Str(py_str(df.columns[c].name))))]]]

\* what a call returns, with the caller's table as the call leaves it
CsvResult(is_valid, message, df, caller) ==
    [is_valid |-> is_valid, message |-> message, df |-> df, caller |-> caller]

\* a rejection that hands back the table sanitized
rejected_sanitized(message, df) ==
    CsvResult(FALSE, message, rename_columns(sanitize_cells(df)), df)

\* return False, message, df
rejected(message, df) == CsvResult(FALSE, message, df, df)

\* validate_csv_security(df, file_size_bytes)
validate_csv_security(df, file_size_bytes) ==
    LET message == structural_check(df, file_size_bytes)
    IN  IF message.text # ""
        THEN rejected(message, df)
        ELSE CsvResult(TRUE, message, rename_columns(sanitize_cells(df)),
                       sanitize_cells(df))

(***************************************************************************)
(* SpecCSV: one call of validate_csv_security on an uploaded table.        *)
(***************************************************************************)
MaxBlocks == 2      \* a table is at most MaxBlocks blocks of equal rows

DigitChars == <<"0", "1", "2", "3", "4", "5", "6", "7", "8", "9">>

RECURSIVE Decimal(_)
\* the decimal digits of n
Decimal(n) ==
    IF n < 10 THEN <<DigitChars[n + 1]>>
    ELSE Decimal(n \div 10) \o <<DigitChars[(n % 10) + 1]>>

\* the columns of the uploads: a text column, a text and a number column, two
\* headers that differ by a leading space, a header that starts a formula,
\* and number columns c1, c2, ... as many as the column cap and one more
NameHeader == <<"N", "a", "m", "e">>
WideColumns(n) == [i \in 1..n |-> Column(Str(<<"c">> \o Decimal(i)), "int64")]

Layouts ==
    { <<Column(Str(NameHeader), "object")>>,
      <<Column(Str(NameHeader), "object"), Column(Str(<<"W">>), "float64")>>,
      <<Column(Str(<<" ">> \o NameHeader), "object"), Column(Str(NameHeader), "int64")>>,
      <<Column(Str(<<"=", "c", "m", "d">>), "int64")>>,
      WideColumns(CSV_LIMITS.max_columns),
      WideColumns(CSV_LIMITS.max_columns + 1) }

\* the cells of a text column and of a number column
TextCells ==
    { Str(<<"a">>), Str(<<"=", "1", "+", "1">>), Str(<<" ", "b">>),
      Str(LongRun \o <<"y", "z">>), NaN }
NumberCells == { Object("int", <<"5">>) }

\* the rows of a layout: a text cell in the text columns, a number cell in
\* the others
RowsOf(columns) ==
    {[c \in DOMAIN columns |->
         IF columns[c].dtype = "object" THEN text ELSE number] :
        text \in TextCells, number \in NumberCells}

\* how many times a row is repeated
Times == {1, CSV_LIMITS.max_rows - 1, CSV_LIMITS.max_rows}

RECURSIVE RowBlocks(_, _)
\* the lists of at most n blocks
RowBlocks(columns, n) ==
    IF n = 0 THEN {<< >>}
    ELSE LET shorter == RowBlocks(columns, n - 1)
         IN  shorter \cup {<<Block(cells, times)>> \o rows :
                              cells \in RowsOf(columns), times \in Times, rows \in shorter}

\* the uploads: file_size_bytes is under the cap, at the cap or one byte over
FileSizes ==
    {1024, CSV_LIMITS.max_file_size_mb * 1024 * 1024,
     CSV_LIMITS.max_file_size_mb * 1024 * 1024 + 1}

InitCSV ==
    /\ \E columns \in Layouts :
          \E rows \in RowBlocks(columns, MaxBlocks), size \in FileSizes :
              csv_arg = [df |-> DataFrame(columns, rows), file_size_bytes |-> size]
    /\ caller_df = csv_arg.df
    /\ csv_ret = NoReturn
    /\ InitRLIdle /\ InitRaceIdle /\ InitESState /\ InitESRaceIdle
    /\ InitVEIdle /\ InitSanIdle /\ InitAppIdle

\* the call: the function works on the caller's table object
ValidateCsv ==
    /\ ~csv_ret.done
    /\ LET r == validate_csv_security(caller_df, csv_arg.file_size_bytes)
       IN  /\ caller_df' = r.caller
           /\ csv_ret' = [done |-> TRUE, is_valid |-> r.is_valid,
                          message |-> r.message, df |-> r.df]
    /\ UNCHANGED <<csv_arg, rlVars, raceVars, esVars, esRaceVars, veVars, sanVars, appVars>>

NextCSV == ValidateCsv

SpecCSV == InitCSV /\ [][NextCSV]_vars

(***************************************************************************)
(* Claims on SpecCSV                                                       *)
(***************************************************************************)
\* the upload fails the size, the row, the column, the non-empty check
FailsSize    == csv_arg.file_size_bytes > CSV_LIMITS.max_file_size_mb * 1024 * 1024
FailsRows    == df_len(csv_arg.df) > CSV_LIMITS.max_rows
FailsColumns == Len(csv_arg.df.columns) > CSV_LIMITS.max_columns
FailsEmpty   == df_len(csv_arg.df) = 0

\* the reason of the earliest failing check, in the order size, rows,
\* columns, non-empty
EarliestReason ==
    IF FailsSize THEN "File too large. Maximum size is MB, got MB"
    ELSE IF FailsRows THEN "Too many rows. Maximum is athletes, got"
    ELSE IF FailsColumns THEN "Too many columns. Maximum is, got"
    ELSE IF FailsEmpty THEN "CSV file is empty"
    ELSE ""

\* C17: the checks run in the order file size, row count, column count,
\* non-empty and stop at the first that fails: the reason returned is that
\* of the earliest failing check
C17_ChecksInOrder ==
    csv_ret.done =>
        /\ csv_ret.is_valid <=> ~(FailsSize \/ FailsRows \/ FailsColumns \/ FailsEmpty)
        /\ csv_ret.message.text = EarliestReason

\* an upload over the size cap and over the row cap was rejected for its
\* size
C17_Witness ==
    /\ csv_ret.done
    /\ FailsSize /\ FailsRows
    /\ ~csv_ret.is_valid
    /\ csv_ret.message.text = "File too large. Maximum size is MB, got MB"

\* C18: the row cap is inclusive: within the other limits a table of exactly
\* 500 rows is accepted and one of 501 rows is rejected with a reason that
\* names the cap, 500
C18_RowCapInclusive ==
    (csv_ret.done /\ ~FailsSize /\ ~FailsColumns) =>
        /\ df_len(csv_arg.df) = 500 => csv_ret.is_valid
        /\ df_len(csv_arg.df) = 501 =>
              /\ ~csv_ret.is_valid
              /\ csv_ret.message.text = "Too many rows. Maximum is athletes, got"
              /\ csv_ret.message.about = <<500, 501>>

\* a table of exactly 500 rows was accepted
C18_Witness ==
    /\ csv_ret.done
    /\ df_len(csv_arg.df) = 500
    /\ csv_ret.is_valid

\* sanitization would change a cell or a column name of the upload
Changeable == rename_columns(sanitize_cells(csv_arg.df)) # csv_arg.df

\* C19: when the table is rejected, the table returned is the input with no
\* cell and no column name changed
C19_RejectedUnchanged ==
    (csv_ret.done /\ ~csv_ret.is_valid) =>
        /\ csv_ret.df = csv_arg.df
        /\ caller_df = csv_arg.df

\* a rejected table with something to sanitize came back as it was
C19_Witness ==
    /\ csv_ret.done
    /\ ~csv_ret.is_valid
    /\ Changeable
    /\ sanitize_cells(csv_arg.df) # csv_arg.df
    /\ csv_ret.df = csv_arg.df

\* C20: the call does not change the caller's table: after a table is
\* accepted the caller's table object still holds the original cells and
\* column names
C20_CallerUntouched ==
    (csv_ret.done /\ csv_ret.is_valid) => caller_df = csv_arg.df


\* the text cells of the returned table and of the upload, place by place:
\* block b, column c, for the columns of dtype object
TextPlaces ==
    {<<b, c>> \in (DOMAIN csv_arg.df.rows) \X (DOMAIN csv_arg.df.columns) :
        csv_arg.df.columns[c].dtype = "object"}

\* C21: an accepted table is returned within every limit: 1 to max_rows
\* rows, at most max_columns columns, and every non-missing text cell and
\* every column name is what sanitize_string gives for the original, at most
\* max_cell_length (200) characters long
C21_AcceptedWithinLimits ==
    (csv_ret.done /\ csv_ret.is_valid) =>
        /\ df_len(csv_ret.df) >= 1 /\ df_len(csv_ret.df) <= 500
        /\ Len(csv_ret.df.columns) <= 50
        /\ Len(csv_ret.df.columns) = Len(csv_arg.df.columns)
        /\ Len(csv_ret.df.rows) = Len(csv_arg.df.rows)
        /\ \A p \in TextPlaces :
              LET old == csv_arg.df.rows[p[1]].cells[p[2]]
                  new == csv_ret.df.rows[p[1]].cells[p[2]]
              IN  old.type # "NaN" =>
                      /\ new = Str(sanitize_string(Str(old.text)))
                      /\ Len(new.text) <= 200
        /\ \A c \in DOMAIN csv_ret.df.columns :
              /\ csv_ret.df.columns[c].name =
                    Str(sanitize_string(Str(csv_arg.df.columns[c].name.text)))
              /\ Len(csv_ret.df.columns[c].name.text) <= 200

\* a table with a cell of 201 characters was accepted and the cell came back
\* with 200
C21_Witness ==
    /\ csv_ret.done /\ csv_ret.is_valid
    /\ \E p \in TextPlaces :
          /\ csv_arg.df.rows[p[1]].cells[p[2]] = Str(LongRun \o <<"y", "z">>)
          /\ Len(csv_ret.df.rows[p[1]].cells[p[2]].text) = 200

\* C22: the headers keep their number and order and no two distinct headers
\* of the upload become the same column name in the returned table
C22_NoHeaderCollision ==
    (csv_ret.done /\ csv_ret.is_valid) =>
        /\ Len(csv_ret.df.columns) = Len(csv_arg.df.columns)
        /\ \A c \in DOMAIN csv_ret.df.columns :
              csv_ret.df.columns[c].name =
                  Str(sanitize_string(Str(csv_arg.df.columns[c].name.text)))
        /\ \A c1, c2 \in DOMAIN csv_arg.df.columns :
              csv_arg.df.columns[c1].name # csv_arg.df.columns[c2].name
                  => csv_ret.df.columns[c1].name # csv_ret.df.columns[c2].name

(***************************************************************************)
(* Claims on SpecES: a save that fails while writing                       *)
(***************************************************************************)
\* C29: a save_email call whose write raises after the file was opened for
\* writing leaves the store with the records it held before the call
C29_FailedWriteKeepsRecords ==
    (lastCall.called /\ lastCall.failed = "dump" /\ Len(lastCall.before.data) >= 1) =>
        /\ file.kind = "json"
        /\ file.data = lastCall.before.data
        /\ get_email_count(file) = get_email_count(lastCall.before)

(***************************************************************************)
(* Claims on SpecSan: signatures inside the value, and a second pass       *)
(***************************************************************************)
\* the part of v from place i on
From(v, i) == SubSeq(v, i, Len(v))

\* v holds <script, javascript:, data: or an event-handler attribute at
\* some place
HoldsSignature(v) ==
    \E i \in DOMAIN v :
        \/ Begins(From(v, i), <<"<", "s", "c", "r", "i", "p", "t">>)
        \/ Begins(From(v, i), <<"j", "a", "v", "a", "s", "c", "r", "i", "p", "t", ":">>)
        \/ Begins(From(v, i), <<"d", "a", "t", "a", ":">>)
        \/ BeginsWithHandler(From(v, i))

\* C26: a value that holds <script, javascript:, data: or an on...=
\* attribute at any place, not only at its start, comes back starting with
\* the quote marker
C26_SignatureAnywhere ==
    (value_ret.done /\ value_arg.type = "str" /\ HoldsSignature(Cleaned(value_arg)))
        => (value_ret.value # << >> /\ value_ret.value[1] = "'")

\* C28: sanitize_string is idempotent on strings: a second pass over what it
\* returned changes nothing
C28_Idempotent ==
    (value_ret.done /\ "again" \in DOMAIN value_ret /\ value_arg.type = "str")
        => value_ret.again = value_ret.value

MaxFormPieces == 3      \* a typed address is at most MaxFormPieces pieces long

\* the values a call of validate_email hands back, as the tuple it returns
returned_values(result) == <<result.is_valid, result.message, result.suggestion>>

\* a, b = values: the tuple must hold as many values as there are names
unpack(values, names) ==
    IF Len(values) = names THEN Returns(values) ELSE Raises("ValueError")

\* what a run of the handler leaves: the store, the flag, and how far it got
FormRun(f, flag, validated, is_valid, saved, save_ret, raised) ==
    [file |-> f, email_submitted |-> flag, validated |-> validated,
     is_valid |-> is_valid, saved |-> saved, save_ret |-> save_ret,
     raised |-> raised]

\* the body of "with st.form('email_form')" after Subscribe was pressed
email_form_submitted(f, email, consent, sid, resolution, fault, t) ==
    IF email = << >>
    THEN FormRun(f, FALSE, FALSE, FALSE, FALSE, FALSE, "none")
    ELSE LET result == validate_email(email, resolution)
         IN  IF result.raised
             THEN FormRun(f, FALSE, TRUE, FALSE, FALSE, FALSE, result.exception)
             ELSE LET names == unpack(returned_values(result), 2)
                  IN  IF names.raised
                      THEN FormRun(f, FALSE, TRUE, result.is_valid, FALSE, FALSE,
                                   names.exception)
                      ELSE IF names.value[1]
                           THEN LET r == save_email(f, Address(email, Len(email)), sid,
                                                    consent, fault, t)
                                IN  FormRun(r.file, r.ret, TRUE, TRUE, TRUE, r.ret, "none")
                           ELSE FormRun(f, FALSE, TRUE, FALSE, FALSE, FALSE, "none")

(***************************************************************************)
(* SpecForm: one press of Subscribe in a session, with any typed address,  *)
(* the checkbox either way, and the lookup and the write ending any way.   *)
(***************************************************************************)
FormPieces ==
    { <<"u", "s", "e", "r">>, <<"@">>, <<"c", ".", "c", "o", "m">>,
      <<"g", "m", "i", "a", "l", ".", "c", "o", "m">>, <<" ">> }

RECURSIVE FormTexts(_)
\* the strings of at most n pieces
FormTexts(n) ==
    IF n = 0 THEN {<< >>}
    ELSE LET shorter == FormTexts(n - 1)
         IN  shorter \cup {p \o t : p \in FormPieces, t \in shorter}

NoRun ==
    [submitted |-> FALSE, email |-> << >>, consent |-> FALSE, validated |-> FALSE,
     is_valid |-> FALSE, saved |-> FALSE, save_ret |-> FALSE, raised |-> "none"]

InitForm ==
    /\ email_form = [email_submitted |-> FALSE, run |-> NoRun]
    /\ InitSeasonIdle
    /\ InitRLIdle /\ InitRaceIdle /\ InitESState /\ InitESRaceIdle
    /\ InitVEIdle /\ InitSanIdle /\ InitCSVIdle

SubmitForm(email, consent, resolution, fault) ==
    /\ ~email_form.email_submitted
    /\ ~email_form.run.submitted
    /\ LET r == email_form_submitted(file, email, consent, "s1", resolution, fault, now)
       IN  /\ file' = r.file
           /\ email_form' =
                 [email_submitted |-> r.email_submitted,
                  run |-> [submitted |-> TRUE, email |-> email, consent |-> consent,
                           validated |-> r.validated, is_valid |-> r.is_valid,
                           saved |-> r.saved, save_ret |-> r.save_ret,
                           raised |-> r.raised]]
    /\ UNCHANGED <<lastCall, season, rlVars, raceVars, esRaceVars, veVars, sanVars, csvVars>>

NextForm ==
    \E email \in FormTexts(MaxFormPieces), consent \in BOOLEAN :
        \E resolution \in ResolutionsOf(email), fault \in {"none", "open_w"} :
            SubmitForm(email, consent, resolution, fault)

SpecForm == InitForm /\ [][NextForm]_vars

\* C27: a press of Subscribe with a non-empty address runs validate_email and
\* then completes without an exception; when the address was accepted and
\* the box was ticked save_email was called, and when that returned True the
\* session's email_submitted flag is set
C27_FormCompletes ==
    (email_form.run.submitted /\ email_form.run.email # << >>) =>
        /\ email_form.run.validated
        /\ email_form.run.raised = "none"
        /\ (email_form.run.is_valid /\ email_form.run.consent) =>
              /\ email_form.run.saved
              /\ email_form.run.save_ret => email_form.email_submitted

(***************************************************************************)
(* Seasons (athlete_report_streamlit.py): SEASON_CONFIG and the column     *)
(* checks process_csv makes on an uploaded table.                          *)
(***************************************************************************)
MaxHeaders == 3         \* an uploaded table has at most MaxHeaders columns

\* an entry of optional_columns: the field and the chart drawn for it, "" when
\* the field has none
Optional(field, chart) == [field |-> field, chart |-> chart]

SEASON_CONFIG ==
    [ s \in {"OFF Season", "IN Season"} |->
        IF s = "OFF Season"
        THEN [ required_columns |-> << <<"N", "a", "m", "e">> >>,
               optional_columns |->
        << Optional(<<"W", "e", "i", "g", "h", "t">>, ""),
           Optional(<<"H", "e", "i", "g", "h", "t">>, ""),
           Optional(<<"S", "p", "r", "i", "n", "t">>, "sprint_10m"),
           Optional(<<"S", "p", "r", "i", "n", "t", "_", "3", "0", "m">>, "sprint_30m"),
           Optional(<<"C", "M", "J">>, "cmj"),
           Optional(<<"B", "r", "o", "a", "d", "J", "u", "m", "p">>, "broad_jump"),
           Optional(<<"Y", "o", "y", "o">>, "yoyo"),
           Optional(<<"S", "t", "o", "p", "G", "o">>, "stop_go") >> ]
        ELSE [ required_columns |-> << <<"N", "a", "m", "e">> >>,
               optional_columns |->
        << Optional(<<"W", "e", "i", "g", "h", "t">>, ""),
           Optional(<<"H", "e", "i", "g", "h", "t">>, ""),
           Optional(<<"C", "M", "J">>, "cmj"),
           Optional(<<"W", "a", "t", "t", "b", "i", "k", "e", "_", "6", "s">>, "wattbike") >> ] ]

\* the sets test_season_config compares required_columns with
expected_required_columns ==
    [ s \in {"OFF Season", "IN Season"} |->
        IF s = "OFF Season"
        THEN { <<"N", "a", "m", "e">>,
               <<"W", "e", "i", "g", "h", "t">>,
               <<"H", "e", "i", "g", "h", "t">>,
               <<"S", "p", "r", "i", "n", "t">>,
               <<"S", "p", "r", "i", "n", "t", "_", "3", "0", "m">>,
               <<"C", "M", "J">> }
        ELSE { <<"N", "a", "m", "e">>,
               <<"W", "e", "i", "g", "h", "t">>,
               <<"H", "e", "i", "g", "h", "t">>,
               <<"C", "M", "J">>,
               <<"W", "a", "t", "t", "b", "i", "k", "e", "_", "6", "s">> } ]

RECURSIVE sub_parentheses(_)
\* re.sub(r'\([^)]*\)', '', s): each "(", up to the next ")", is taken out
sub_parentheses(s) ==
    IF s = << >> THEN << >>
    ELSE IF Head(s) = "(" /\ \E j \in 2..Len(s) : s[j] = ")"
         THEN LET j == CHOOSE k \in 2..Len(s) :
                          s[k] = ")" /\ \A m \in 2..(k - 1) : s[m] # ")"
              IN  sub_parentheses(SubSeq(s, j + 1, Len(s)))
         ELSE <<Head(s)>> \o sub_parentheses(Tail(s))

RECURSIVE sub_spaces(_)
\* re.sub(r'\s+', ' ', s): each run of whitespace becomes one space
sub_spaces(s) ==
    IF s = << >> THEN << >>
    ELSE IF Head(s) \in Whitespace
         THEN IF Len(s) >= 2 /\ s[2] \in Whitespace
              THEN sub_spaces(Tail(s))
              ELSE <<" ">> \o sub_spaces(Tail(s))
         ELSE <<Head(s)>> \o sub_spaces(Tail(s))

\* normalize_column_name(col_name)
normalize_column_name(col_name) ==
    LET lowered  == lower_text(col_name)
        bare     == sub_parentheses(lowered)
        plain    == SelectSeq(bare, LAMBDA c : IsWordChar(c) \/ c \in Whitespace)
        stripped == strip(sub_spaces(plain))
    IN  [i \in DOMAIN stripped |-> IF stripped[i] = " " THEN "_" ELSE stripped[i]]

\* the list of names find_matching_column accepts for a field
variations(target_field) ==
    {normalize_column_name(target_field)} \cup
    CASE target_field = <<"S", "p", "r", "i", "n", "t", "_", "3", "0", "m">> ->
            { <<"s", "p", "r", "i", "n", "t", "_", "3", "0", "m">>,
              <<"s", "p", "r", "i", "n", "t", "3", "0", "m">>,
              <<"s", "p", "r", "i", "n", "t", "_", "3", "0">> }
      [] target_field = <<"S", "t", "o", "p", "G", "o">> ->
            { <<"s", "t", "o", "p", "g", "o">>,
              <<"s", "t", "o", "p", "_", "g", "o">>,
              <<"s", "t", "o", "p", "_", "a", "n", "d", "_", "g", "o">>,
              <<"s", "t", "o", "p", "_", "_", "g", "o">> }
      [] target_field = <<"Y", "o", "y", "o">> ->
            { <<"y", "o", "y", "o">>,
              <<"y", "o", "_", "y", "o">>,
              <<"y", "o", "y", "o", "_", "t", "e", "s", "t">> }
      [] target_field = <<"B", "r", "o", "a", "d", "J", "u", "m", "p">> ->
            { <<"b", "r", "o", "a", "d", "j", "u", "m", "p">>,
              <<"b", "r", "o", "a", "d", "_", "j", "u", "m", "p">>,
              <<"l", "o", "n", "g", "_", "j", "u", "m", "p">>,
              <<"l", "o", "n", "g", "j", "u", "m", "p">> }
      [] OTHER -> {}

\* find_matching_column(target_field, df_columns): the first column that
\* matches, or None
find_matching_column(target_field, df_columns) ==
    LET matching == {i \in DOMAIN df_columns :
                        normalize_column_name(df_columns[i]) \in variations(target_field)}
    IN  IF matching = {} THEN None
        ELSE Some(df_columns[CHOOSE i \in matching : \A j \in matching : i <= j])

\* what process_csv returns: (None, None) with the error shown, or the table
\* with the fields found
Processed(ok, message, required_fields, available) ==
    [ok |-> ok, message |-> message, required_fields |-> required_fields,
     available |-> available]

\* process_csv(df, season_type) on a table with the columns df_columns;
\* valid_rows tells whether a row is left once the rows with an unreadable
\* number are dropped
process_csv(df_columns, season_type, valid_rows) ==
    LET config == SEASON_CONFIG[season_type]
        required_fields == config.required_columns
        missing_required ==
            SelectSeq(required_fields,
                      LAMBDA field : find_matching_column(field, df_columns) = None)
        optional == config.optional_columns
        available ==
            {optional[i].field : i \in {k \in DOMAIN optional :
                find_matching_column(optional[k].field, df_columns) # None}}
    IN  IF missing_required # << >>
        THEN Processed(FALSE, "Missing required column: Name", required_fields, {})
        ELSE IF ~valid_rows
             THEN Processed(FALSE, "No valid athlete rows found", required_fields, {})
             ELSE Processed(TRUE, "Loaded", required_fields, available)

(***************************************************************************)
(* SpecSeason: the season is chosen with the radio, then one table is      *)
(* uploaded and handed to process_csv.                                     *)
(***************************************************************************)
Headers ==
    { <<"N", "a", "m", "e">>,
      <<"N", "A", "M", "E", " ", "(", "f", "u", "l", "l", ")">>,
      <<"W", "e", "i", "g", "h", "t", " ", "(", "k", "g", ")">>,
      <<"S", "p", "r", "i", "n", "t">>,
      <<"S", "p", "r", "i", "n", "t", " ", "3", "0", "m">>,
      <<"C", "M", "J">>,
      <<"W", "a", "t", "t", "b", "i", "k", "e", "_", "6", "s">>,
      <<"A", "t", "h", "l", "e", "t", "e">> }

\* the column lists of at most n distinct headers
ColumnLists(n) ==
    UNION { {c \in [1..k -> Headers] : \A i, j \in 1..k : c[i] = c[j] => i = j} : k \in 0..n }

NoUpload == [uploaded |-> FALSE, df_columns |-> << >>, result |-> Processed(FALSE, "", << >>, {})]

InitSeason ==
    /\ season = [season_type |-> "OFF Season", upload |-> NoUpload]
    /\ InitFormIdle
    /\ InitRLIdle /\ InitRaceIdle /\ InitESState /\ InitESRaceIdle
    /\ InitVEIdle /\ InitSanIdle /\ InitCSVIdle

\* st.radio: the other season is picked before anything is uploaded
SelectSeason(season_type) ==
    /\ ~season.upload.uploaded
    /\ season.season_type # season_type
    /\ season' = [season EXCEPT !.season_type = season_type]
    /\ UNCHANGED <<email_form, rlVars, raceVars, esVars, esRaceVars, veVars, sanVars, csvVars>>

Upload(df_columns, valid_rows) ==
    /\ ~season.upload.uploaded
    /\ season' = [season EXCEPT !.upload =
                     [uploaded |-> TRUE, df_columns |-> df_columns,
                      result |-> process_csv(df_columns, season.season_type, valid_rows)]]
    /\ UNCHANGED <<email_form, rlVars, raceVars, esVars, esRaceVars, veVars, sanVars, csvVars>>

NextSeason ==
    \/ \E season_type \in DOMAIN SEASON_CONFIG : SelectSeason(season_type)
    \/ \E df_columns \in ColumnLists(MaxHeaders), valid_rows \in BOOLEAN :
          Upload(df_columns, valid_rows)

SpecSeason == InitSeason /\ [][NextSeason]_vars

Range(seq) == {seq[i] : i \in DOMAIN seq}

\* C25: SEASON_CONFIG has the two seasons, and the required columns an
\* upload is checked against are, as a set, Name, Weight, Height, Sprint,
\* Sprint_30m and CMJ for OFF Season and Name, Weight, Height, CMJ and
\* Wattbike_6s for IN Season
C25_RequiredColumns ==
    /\ DOMAIN SEASON_CONFIG = {"OFF Season", "IN Season"}
    /\ season.upload.uploaded =>
          Range(season.upload.result.required_fields) =
              expected_required_columns[season.season_type]

\* C24: no line the core logs holds what the user supplied: the warning
\* sanitize_string writes when it changes a cell shows none of the cell's
\* characters, only at most the quote that was put before them
C24_NoCellTextLogged ==
    value_ret.done =>
        \A i \in DOMAIN value_ret.warnings :
            Len(value_ret.warnings[i].content) <= 1

\* C23: every decision leaves a line in the log: a save_email call made with
\* consent, whether it stores the address, drops it at a cap, finds it
\* already stored or fails, has logged at least one line when it returns
C23_EverySaveLogged ==
    (lastCall.called /\ lastCall.consent) => lastCall.logged # << >>

====
